---- MODULE Spec2Model ----
(***************************************************************************)
(* A model of src/app.py: the text-extraction-to-geocoded-record pipeline  *)
(* of the concrete-repair map (extract_rows, split_streets and the retry   *)
(* loops of generate_and_save_map).                                        *)
(*                                                                         *)
(* A Python str is modelled as the sequence of its characters, each a      *)
(* one-character string, so that strip, lstrip, split, startswith,         *)
(* endswith, slicing and the regular expressions of the source are         *)
(* computed character by character, as Python computes them.               *)
(***************************************************************************)
EXTENDS Integers, Sequences, FiniteSets, TLC

VARIABLES
    pc,              \* where generate_and_save_map (or the function under check) stands
    doc,             \* the raw lines of the PDF text, in page and line order
    li,              \* extract_rows: the number of raw lines already consumed
    boro,            \* extract_rows: the tracked borough (NoneVal before any)
    rows,            \* extract_rows: the (boro, block) pairs appended so far
    origin,          \* history: origin[k] is the index in doc of the line of rows[k]
    idx,             \* generate_and_save_map: the number of rows already handled
    streets,         \* generate_and_save_map: (on_st, from_st, to_st) of the current row
    tries,           \* generate_and_save_map: the retry counter
    start_location,  \* generate_and_save_map: NoneVal or the start Location
    end_location,    \* generate_and_save_map: NoneVal or the end Location
    m,               \* the folium map: the layers added so far, in order
    log,             \* history: geocode calls, sleeps and saves, in order
    arg,             \* the input of the pure function under check
    ret              \* its result

vars == <<pc, doc, li, boro, rows, origin, idx, streets, tries,
          start_location, end_location, m, log, arg, ret>>

----------------------------------------------------------------------------
(* Python values *)

\* None. No str is equal to it: a str is a sequence of one-character strings.
NoneVal == << "<None>" >>

\* str(x) inside an f-string: None prints as the four characters N o n e.
Str(x) == IF x = NoneVal THEN <<"N","o","n","e">> ELSE x

\* The characters str.strip(), str.split() and \s treat as whitespace.
Whitespace == {" ", "\t"}

LowerCase == <<"a","b","c","d","e","f","g","h","i","j","k","l","m",
               "n","o","p","q","r","s","t","u","v","w","x","y","z">>
UpperCase == <<"A","B","C","D","E","F","G","H","I","J","K","L","M",
               "N","O","P","Q","R","S","T","U","V","W","X","Y","Z">>

\* str.upper() on the letters: re.I compares case-insensitively.
UpperMap ==
    [c \in {LowerCase[i] : i \in 1..26} |->
        UpperCase[CHOOSE i \in 1..26 : LowerCase[i] = c]]

ToUpper(c) == IF c \in DOMAIN UpperMap THEN UpperMap[c] ELSE c

Upper(s) == [i \in 1..Len(s) |-> ToUpper(s[i])]

\* str.lstrip(chars): drop leading characters that are members of chars.
RECURSIVE LStripSet(_, _)
LStripSet(s, cs) ==
    IF s # <<>> /\ Head(s) \in cs THEN LStripSet(Tail(s), cs) ELSE s

\* str.rstrip(chars).
RECURSIVE RStripSet(_, _)
RStripSet(s, cs) ==
    IF s # <<>> /\ s[Len(s)] \in cs
    THEN RStripSet(SubSeq(s, 1, Len(s) - 1), cs)
    ELSE s

\* str.strip().
Strip(s) == RStripSet(LStripSet(s, Whitespace), Whitespace)

\* str.startswith(p), str.endswith(p), p in s.
StartsWith(s, p) == Len(s) >= Len(p) /\ SubSeq(s, 1, Len(p)) = p
EndsWith(s, p) == Len(s) >= Len(p) /\ SubSeq(s, Len(s) - Len(p) + 1, Len(s)) = p
Contains(s, p) == \E i \in 1..(Len(s) - Len(p) + 1) : SubSeq(s, i, i + Len(p) - 1) = p

\* The length of the leading run of s made of characters in (inSet = TRUE) or
\* not in (inSet = FALSE) the set cs.
RECURSIVE RunLen(_, _, _)
RunLen(s, cs, inSet) ==
    IF s # <<>> /\ ((Head(s) \in cs) = inSet)
    THEN 1 + RunLen(Tail(s), cs, inSet)
    ELSE 0

\* str.split(maxsplit=k) with k >= 0, and str.split() as SplitMax(s, -1):
\* whitespace-delimited parts; after k splits the rest, minus its leading
\* whitespace, is the last part.
RECURSIVE SplitMax(_, _)
SplitMax(s, k) ==
    LET t == LStripSet(s, Whitespace)
        n == RunLen(t, Whitespace, FALSE)
    IN  IF t = <<>> THEN <<>>
        ELSE IF k = 0 THEN <<t>>
        ELSE <<SubSeq(t, 1, n)>> \o SplitMax(SubSeq(t, n + 1, Len(t)), k - 1)

Split(s) == SplitMax(s, -1)

\* " ".join(words).
RECURSIVE Join(_)
Join(words) ==
    IF words = <<>> THEN <<>>
    ELSE IF Len(words) = 1 THEN words[1]
    ELSE words[1] \o <<" ">> \o Join(Tail(words))

\* re.split(r"\s{n,}", s) for n = MinRun: cut s at every maximal run of MinRun or
\* more whitespace characters; from is where the current piece starts and i the
\* scan position.
RECURSIVE ReSplitFrom(_, _, _, _)
ReSplitFrom(s, from, i, MinRun) ==
    IF i > Len(s) THEN <<SubSeq(s, from, Len(s))>>
    ELSE LET run == RunLen(SubSeq(s, i, Len(s)), Whitespace, TRUE)
         IN  IF run >= MinRun
             THEN <<SubSeq(s, from, i - 1)>> \o ReSplitFrom(s, i + run, i + run, MinRun)
             ELSE ReSplitFrom(s, from, i + (IF run > 0 THEN run ELSE 1), MinRun)

----------------------------------------------------------------------------
(* split_streets *)

\* The alternatives of street_types, each without its leading space.
StreetTypes == {
    <<"S","T">>, <<"S","T","R","E","E","T">>, <<"A","V","E">>,
    <<"A","V","E","N","U","E">>, <<"R","D">>, <<"R","O","A","D">>,
    <<"B","L","V","D">>, <<"B","O","U","L","E","V","A","R","D">>,
    <<"P","K","W","Y">>, <<"P","A","R","K","W","A","Y">>, <<"P","L">>,
    <<"P","L","A","C","E">>, <<"D","R">>, <<"D","R","I","V","E">>,
    <<"C","T">>, <<"C","O","U","R","T">>, <<"H","W","Y">>,
    <<"H","I","G","H","W","A","Y">>, <<"W","A","Y">>, <<"L","A","N","E">>,
    <<"L","N">>, <<"E","X","P","W","Y">>,
    <<"E","X","P","R","E","S","S","W","A","Y">> }

\* The search without re.I: the case of joined must match.
HasStreetTypeCaseSensitive(joined) ==
    \E t \in StreetTypes :
        /\ Len(joined) > Len(t)
        /\ SubSeq(joined, Len(joined) - Len(t), Len(joined)) = <<" ">> \o t

\* re.search(street_types, joined, re.I): joined ends, case-insensitively, with a
\* space followed by one of the street types.
HasStreetType(joined) ==
    \E t \in StreetTypes :
        /\ Len(joined) > Len(t)
        /\ Upper(SubSeq(joined, Len(joined) - Len(t), Len(joined))) = <<" ">> \o t

\* [t.strip() for t in tokens if t.strip()].
RECURSIVE StripNonEmpty(_)
StripNonEmpty(tokens) ==
    IF tokens = <<>> THEN <<>>
    ELSE (IF Strip(Head(tokens)) # <<>> THEN <<Strip(Head(tokens))>> ELSE <<>>)
         \o StripNonEmpty(Tail(tokens))

\* The split at every run of whitespace, r"\s+", instead of r"\s{2,}".
AnyGapTokens(block) == StripNonEmpty(ReSplitFrom(block, 1, 1, 1))

\* tokens = re.split(r"\s{2,}", block), stripped, the empty ones dropped.
WideGapTokens(block) == StripNonEmpty(ReSplitFrom(block, 1, 1, 2))

\* The for loop over block.split(): words are the words still to scan, found the
\* street names closed out so far and buf the accumulator. The result is <<found,
\* buf>> when the loop ends, by exhaustion or by the break at three names.
RECURSIVE GreedyLoop(_, _, _)
GreedyLoop(words, found, buf) ==
    IF words = <<>> \/ Len(found) = 3 THEN <<found, buf>>
    ELSE LET buf2 == Append(buf, Head(words))
             joined == Join(buf2)
         IN  IF HasStreetType(joined)
             THEN GreedyLoop(Tail(words), Append(found, joined), <<>>)
             ELSE GreedyLoop(Tail(words), found, buf2)

\* The unclosed accumulator becomes the next name when fewer than three were found.
FlushBuf(found, buf) ==
    IF buf # <<>> /\ Len(found) < 3 THEN Append(found, Join(buf)) ELSE found

\* The names found, neither padded nor cut.
NoPad(found) == found

\* while len(streets) < 3: streets.append(""); return streets[:3].
RECURSIVE PadThree(_)
PadThree(found) ==
    IF Len(found) < 3 THEN PadThree(Append(found, <<>>)) ELSE SubSeq(found, 1, 3)

GreedyStreets(block) ==
    LET r == GreedyLoop(Split(block), <<>>, <<>>)
    IN  PadThree(FlushBuf(r[1], r[2]))

split_streets(block) ==
    LET tokens == WideGapTokens(block)
    IN  IF Len(tokens) = 3 THEN tokens ELSE GreedyStreets(block)

----------------------------------------------------------------------------
(* extract_rows *)

Bronx == <<"B","r","o","n","x">>
Brooklyn == <<"B","r","o","o","k","l","y","n">>
Manhattan == <<"M","a","n","h","a","t","t","a","n">>
Queens == <<"Q","u","e","e","n","s">>
STATEN == <<"S","T","A","T","E","N">>

boro_tokens == {Bronx, Brooklyn, Manhattan, Queens, STATEN}

ScheduleFor == <<"S","c","h","e","d","u","l","e"," ","f","o","r">>
Borough == <<"B","o","r","o","u","g","h">>
Concrete == <<"C","o","n","c","r","e","t","e">>
StatenIsland == <<"S","t","a","t","e","n"," ","I","s","l","a","n","d">>

\* Blank lines alone are skipped.
SkippedBlank(ln) == ln = <<>>

\* if not ln or "Schedule for" in ln or ln.startswith("Borough"): continue
Skipped(ln) == ln = <<>> \/ Contains(ln, ScheduleFor) \/ StartsWith(ln, Borough)

\* any(ln.startswith(b) for b in boro_tokens)
StartsWithBoro(ln) == \E b \in boro_tokens : StartsWith(ln, b)

\* The first part verbatim, STATEN too.
BoroNameVerbatim(parts) == parts[1]

\* boro = "Staten Island" if "STATEN" in parts[0] else parts[0]
BoroName(parts) ==
    IF Contains(parts[1], STATEN) THEN StatenIsland ELSE parts[1]

\* ln = parts[2] if len(parts) > 2 else ""
Remainder(parts) == IF Len(parts) > 2 THEN parts[3] ELSE <<>>

\* ln.lstrip("SIP ").lstrip("IFA "): each lstrip drops leading characters that
\* are members of its argument, read as a set of characters.
StripPrefix(ln) ==
    LStripSet(LStripSet(ln, {"S", "I", "P", " "}), {"I", "F", "A", " "})

\* ln.endswith("Concrete")
Qualifies(ln) == EndsWith(ln, Concrete)

\* ln[:-8].strip()
BlockOfLine(ln) == Strip(SubSeq(ln, 1, Len(ln) - 8))

\* Lines 53 to 56 as a function of the text: the leading characters stripped
\* and, on a qualifying line, the last 8 characters dropped and the rest trimmed.
StripStep(ln) ==
    LET content == StripPrefix(ln)
    IN  IF Qualifies(content) THEN BlockOfLine(content) ELSE content

\* The body of the loop for one raw line, a variant that appends the borough
\* tracked before the line instead of the one the line sets.
LineStepLateUpdate(b, raw) ==
    LET ln == Strip(raw)
        isBoro == StartsWithBoro(ln)
        parts == SplitMax(ln, 2)
        content == StripPrefix(IF isBoro THEN Remainder(parts) ELSE ln)
    IN  IF Skipped(ln) THEN [boro |-> b, appended |-> <<>>]
        ELSE [boro |-> IF isBoro THEN BoroName(parts) ELSE b,
              appended |-> IF Qualifies(content)
                           THEN << <<b, BlockOfLine(content)>> >>
                           ELSE <<>>]

\* The body of the loop of extract_rows for one raw line, with b the borough
\* tracked so far: the borough tracked afterwards and the rows appended
\* (none or one).
LineStep(b, raw) ==
    LET ln == Strip(raw)
        isBoro == StartsWithBoro(ln)
        parts == SplitMax(ln, 2)
        b2 == IF isBoro THEN BoroName(parts) ELSE b
        content == StripPrefix(IF isBoro THEN Remainder(parts) ELSE ln)
    IN  IF Skipped(ln) THEN [boro |-> b, appended |-> <<>>]
        ELSE [boro |-> b2,
              appended |-> IF Qualifies(content)
                           THEN << <<b2, BlockOfLine(content)>> >>
                           ELSE <<>>]

\* One iteration of the loop over the raw lines.
ExtractLine ==
    /\ pc = "extract"
    /\ li < Len(doc)
    /\ LET r == LineStep(boro, doc[li + 1])
       IN  /\ boro' = r.boro
           /\ rows' = rows \o r.appended
           /\ origin' = IF r.appended = <<>> THEN origin ELSE Append(origin, li + 1)
    /\ li' = li + 1
    /\ UNCHANGED <<pc, doc, idx, streets, tries, start_location, end_location,
                   m, log, arg, ret>>

\* return rows
ExtractReturn ==
    /\ pc = "extract"
    /\ li = Len(doc)
    /\ pc' = "rows"
    /\ UNCHANGED <<doc, li, boro, rows, origin, idx, streets, tries,
                   start_location, end_location, m, log, arg, ret>>

----------------------------------------------------------------------------
(* generate_and_save_map *)

\* while ... and tries < 3
MaxTries == 3

\* The most failed geocode calls (no match, or an exception) in one run.
MaxFailures == 4

\* pdf_filelike = download_latest_pdf(): the PDF was fetched.
DownloadOk ==
    /\ pc = "download"
    /\ pc' = "extract"
    /\ UNCHANGED <<doc, li, boro, rows, origin, idx, streets, tries,
                   start_location, end_location, m, log, arg, ret>>

\* download_latest_pdf() returned None: "No PDF downloaded", return.
DownloadFail ==
    /\ pc = "download"
    /\ pc' = "no_pdf"
    /\ UNCHANGED <<doc, li, boro, rows, origin, idx, streets, tries,
                   start_location, end_location, m, log, arg, ret>>

\* pdfplumber.open or page.extract_text() raises while the lines are read: the
\* exception leaves extract_rows and is caught by the except clause of
\* generate_and_save_map, which prints the traceback and returns.
ExtractRaise ==
    /\ pc = "extract"
    /\ pc' = "error"
    /\ UNCHANGED <<doc, li, boro, rows, origin, idx, streets, tries,
                   start_location, end_location, m, log, arg, ret>>

\* A row is taken whenever it has an on_st.
OnStreetOnly(s) == s[1] # <<>>

\* if not (on_st and from_st): continue
Usable(s) == s[1] # <<>> /\ s[2] # <<>>

\* The end address looked up whether or not there is a to_st.
AlwaysToStreet(s) == TRUE

\* if to_st:
HasToStreet(s) == s[3] # <<>>

\* f"{on_st} & {from_st}, {boro}, NY"
StartAddr(s, b) ==
    s[1] \o <<" ","&"," ">> \o s[2] \o <<","," ">> \o Str(b) \o <<","," ","N","Y">>

\* f"{on_st} & {to_st}, {boro}, NY"
EndAddr(s, b) ==
    s[1] \o <<" ","&"," ">> \o s[3] \o <<","," ">> \o Str(b) \o <<","," ","N","Y">>

\* What geocoder.geocode(address) may do: return a Location, return None (no
\* match), or raise (a timeout, a service error).
GeocodeOutcomes == {"location", "none", "raise"}

\* The Location a call returns, named after the place of the call in the log.
LocationOf(n) == <<"Location", n>>

CallEvent(row, which, address, outcome) ==
    [op |-> "geocode", row |-> row, which |-> which, address |-> address,
     outcome |-> outcome]

\* time.sleep(1)
SleepEvent(row, which) ==
    [op |-> "sleep", row |-> row, which |-> which, address |-> <<>>, outcome |-> "1s"]

\* m.save(MAP_FILE)
SaveEvent == [op |-> "save", row |-> 0, which |-> "", address |-> <<>>, outcome |-> ""]

Failures(l) ==
    Cardinality({n \in 1..Len(l) : l[n].op = "geocode" /\ l[n].outcome # "location"})

\* One geocode attempt inside try/except: the call, and the sleep when it raised.
Attempt(row, which, address, outcome) ==
    IF outcome = "raise"
    THEN <<CallEvent(row, which, address, outcome), SleepEvent(row, which)>>
    ELSE <<CallEvent(row, which, address, outcome)>>

Layer(type, row, locations) == [type |-> type, row |-> row, locations |-> locations]

\* Nothing is drawn for the row.
NoLayers(row, s) == <<>>

\* folium.Marker(...).add_to(m): the start alone.
PointLayers(row, s) == <<Layer("Marker", row, <<s>>)>>

\* The line drawn from the end to the start.
LineLayersReversed(row, s, e) ==
    <<Layer("PolyLine", row, <<e, s>>), Layer("CircleMarker", row, <<e>>),
      Layer("CircleMarker", row, <<s>>)>>

\* folium.PolyLine(...), and a CircleMarker at each end.
LineLayers(row, s, e) ==
    <<Layer("PolyLine", row, <<s, e>>), Layer("CircleMarker", row, <<s>>),
      Layer("CircleMarker", row, <<e>>)>>

\* The layers put under those the map has.
AddFirst(layers, map) == layers \o map

\* .add_to(m): the layers are added after those the map has.
AddTo(layers, map) == map \o layers

\* The loop goes on until a Location is returned, however many tries it takes.
RetryUntilFound(location, t) == location = NoneVal

\* while location is None and tries < 3
Retry(location, t) == location = NoneVal /\ t < MaxTries

\* The rows done with once the start address of row i was given up, had the
\* loop been left there: all n of them.
StartFailureBreaks(i, n) == n

\* if not start_location: continue -- the rows done with, of n, once the start
\* address of row i was given up: the loop goes on with row i + 1.
StartFailureNext(i, n) == i

\* A row that has no on_st or no from_st is passed over.
RowReject ==
    /\ pc = "rows"
    /\ idx < Len(rows)
    /\ ~Usable(split_streets(rows[idx + 1][2]))
    /\ idx' = idx + 1
    /\ UNCHANGED <<pc, doc, li, boro, rows, origin, streets, tries,
                   start_location, end_location, m, log, arg, ret>>

\* The loop takes the next row: split_streets, and the retry loop for the start
\* address is entered.
RowBegin ==
    /\ pc = "rows"
    /\ idx < Len(rows)
    /\ Usable(split_streets(rows[idx + 1][2]))
    /\ streets' = split_streets(rows[idx + 1][2])
    /\ start_location' = NoneVal
    /\ tries' = 0
    /\ pc' = "start"
    /\ UNCHANGED <<doc, li, boro, rows, origin, idx, end_location, m, log, arg, ret>>

\* One pass of the retry loop for the start address, and what follows when the
\* loop is left.
GeocodeStart ==
    /\ pc = "start"
    /\ \E outcome \in GeocodeOutcomes :
        /\ outcome # "location" => Failures(log) < MaxFailures
        /\ LET row == idx + 1
               loc == IF outcome = "location" THEN LocationOf(Len(log) + 1)
                      ELSE start_location
               t == tries + 1
           IN  /\ log' = log \o Attempt(row, "start",
                                        StartAddr(streets, rows[row][1]), outcome)
               /\ start_location' = loc
               /\ IF Retry(loc, t)
                  THEN /\ tries' = t
                       /\ UNCHANGED <<pc, idx, end_location, m>>
                  ELSE IF loc = NoneVal
                  THEN /\ tries' = t
                       /\ idx' = StartFailureNext(idx + 1, Len(rows))
                       /\ pc' = "rows"
                       /\ UNCHANGED <<end_location, m>>
                  ELSE IF HasToStreet(streets)
                  THEN /\ tries' = 0
                       /\ end_location' = NoneVal
                       /\ pc' = "end"
                       /\ UNCHANGED <<idx, m>>
                  ELSE /\ tries' = t
                       /\ end_location' = NoneVal
                       /\ m' = AddTo(PointLayers(row, loc), m)
                       /\ idx' = idx + 1
                       /\ pc' = "rows"
    /\ UNCHANGED <<doc, li, boro, rows, origin, streets, arg, ret>>

\* One pass of the retry loop for the end address; when the loop is left the
\* row is drawn, as a line or as its start alone.
GeocodeEnd ==
    /\ pc = "end"
    /\ \E outcome \in GeocodeOutcomes :
        /\ outcome # "location" => Failures(log) < MaxFailures
        /\ LET row == idx + 1
               loc == IF outcome = "location" THEN LocationOf(Len(log) + 1)
                      ELSE end_location
               t == tries + 1
           IN  /\ log' = log \o Attempt(row, "end",
                                        EndAddr(streets, rows[row][1]), outcome)
               /\ end_location' = loc
               /\ tries' = t
               /\ IF Retry(loc, t)
                  THEN UNCHANGED <<pc, idx, m>>
                  ELSE /\ m' = AddTo(IF loc # NoneVal
                                     THEN LineLayers(row, start_location, loc)
                                     ELSE PointLayers(row, start_location), m)
                       /\ idx' = idx + 1
                       /\ pc' = "rows"
    /\ UNCHANGED <<doc, li, boro, rows, origin, streets, start_location, arg, ret>>

\* The map saved as soon as the loop stands between two rows.
SaveAnyTime ==
    /\ pc = "rows"
    /\ log' = Append(log, SaveEvent)
    /\ pc' = "done"
    /\ UNCHANGED <<doc, li, boro, rows, origin, idx, streets, tries,
                   start_location, end_location, m, arg, ret>>

\* The loop over the rows is over: m.save(MAP_FILE).
Save ==
    /\ pc = "rows"
    /\ idx >= Len(rows)
    /\ log' = Append(log, SaveEvent)
    /\ pc' = "done"
    /\ UNCHANGED <<doc, li, boro, rows, origin, idx, streets, tries,
                   start_location, end_location, m, arg, ret>>

----------------------------------------------------------------------------
(* The state of the pipeline before generate_and_save_map has done anything *)

PipelineAtRest ==
    /\ doc = <<>>
    /\ li = 0
    /\ boro = NoneVal
    /\ rows = <<>>
    /\ origin = <<>>
    /\ idx = 0
    /\ streets = <<>>
    /\ tries = 0
    /\ start_location = NoneVal
    /\ end_location = NoneVal
    /\ m = <<>>
    /\ log = <<>>

pipelineVars == <<doc, li, boro, rows, origin, idx, streets, tries,
                  start_location, end_location, m, log>>

----------------------------------------------------------------------------
(* split_streets applied to bounded blocks *)

\* The most words in one street name of an input block.
MaxNameWords == 3

\* The words street names are made of: one that is no street type and one
\* street type, in mixed case.
SplitVocabulary == { <<"O","A","K">>, <<"S","t">> }

\* The separators between the names of a block: a single space, or a wide gap.
Gaps == { <<" ">>, <<" "," ">> }

SplitNames ==
    UNION { { Join(ws) : ws \in [1..k -> SplitVocabulary] } : k \in 1..MaxNameWords }

\* A block in the making: up to three names and the gaps between them.
IsSplitInput(a) ==
    \E k \in 0..3 :
        \E ns \in [1..k -> SplitNames], gs \in [1..(k - 1) -> Gaps] :
            a = [names |-> ns, gaps |-> gs]

\* The text of the block: names[1] gaps[1] names[2] gaps[2] names[3].
RECURSIVE BlockText(_, _)
BlockText(ns, gs) ==
    IF ns = <<>> THEN <<>>
    ELSE IF Len(ns) = 1 THEN ns[1]
    ELSE ns[1] \o gs[1] \o BlockText(Tail(ns), Tail(gs))

\* Blocks as the schedule prints them.
SplitExamples == {
    [names |-> << <<"M","A","I","N"," ","S","T">>, <<"O","A","K"," ","A","V","E">>,
                  <<"5","T","H"," ","B","L","V","D">> >>,
     gaps |-> << <<" ">>, <<" ">> >>],
    [names |-> << <<"M","A","I","N"," ","S","T">>, <<"O","A","K"," ","A","V","E">>,
                  <<"5","T","H"," ","A","V","E">> >>,
     gaps |-> << <<" "," ">>, <<" "," ">> >>],
    [names |-> << <<"P","A","R","K"," ","P","L","A","C","E"," ","S","O","U","T","H">>,
                  <<"O","A","K"," ","A","V","E">>, <<"5","T","H"," ","A","V","E">> >>,
     gaps |-> << <<" ">>, <<" ">> >>],
    [names |-> << <<"m","a","i","n"," ","s","t","r","e","e","t">>,
                  <<"o","a","k"," ","A","v","e","n","u","e">>,
                  <<"5","t","h"," ","b","l","v","d">> >>,
     gaps |-> << <<" ">>, <<" ">> >>],
    [names |-> << <<"M","A","I","N","\t","S","T">>, <<"O","A","K"," ","A","V","E">>,
                  <<"5","T","H"," ","A","V","E">> >>,
     gaps |-> << <<" ","\t">>, <<"\t","\t"," ">> >>] }

InitSplit ==
    /\ pc = "split_call"
    /\ (IsSplitInput(arg) \/ arg \in SplitExamples)
    /\ ret = <<>>
    /\ PipelineAtRest

SplitCall ==
    /\ pc = "split_call"
    /\ ret' = split_streets(BlockText(arg.names, arg.gaps))
    /\ pc' = "split_done"
    /\ UNCHANGED <<arg, pipelineVars>>

NextSplit == SplitCall

SpecSplit == InitSplit /\ [][NextSplit]_vars

----------------------------------------------------------------------------
(* The strip step of extract_rows applied to bounded line contents *)

\* The most characters before the marker in an input of the strip step.
MaxHeadLen == 3

\* The characters of "SIP " and "IFA ", and one that is in neither.
StripAlphabet == {"S", "I", "P", "F", "A", " ", "X"}

\* What follows the head: nothing, the marker, or a space and the marker.
StripTails == { <<>>, Concrete, <<" ">> \o Concrete }

MainSt == <<"M","A","I","N"," ","S","T">>
OakAve == <<"O","A","K"," ","A","V","E">>
FifthAve == <<"5","T","H"," ","A","V","E">>
ParkAve == <<"P","A","R","K"," ","A","V","E">>
Wide == <<" "," ">>
ThreeStreets == MainSt \o Wide \o OakAve \o Wide \o FifthAve
DataRow == ThreeStreets \o Wide \o Concrete

\* Rows as the schedule prints them.
StripExamples == {
    DataRow,
    <<"S","I","P"," ">> \o DataRow,
    <<"I","F","A"," ">> \o DataRow,
    ParkAve \o Wide \o OakAve \o Wide \o FifthAve \o Wide \o Concrete,
    <<"A"," ","S","I","D","E"," ","S","T">> \o Wide \o OakAve \o Wide \o Concrete }

\* The content reaching line 53 has no leading or trailing whitespace: it is a
\* stripped raw line, or the third part of one.
IsStripInput(a) ==
    \/ \E n \in 0..MaxHeadLen :
           \E h \in [1..n -> StripAlphabet], t \in StripTails :
               a = h \o t /\ Strip(a) = a
    \/ a \in StripExamples

InitStrip ==
    /\ pc = "strip_call"
    /\ IsStripInput(arg)
    /\ ret = <<>>
    /\ PipelineAtRest

\* The strip step on the line content.
StripCall ==
    /\ pc = "strip_call"
    /\ ret' = [content |-> StripPrefix(arg),
               qualifies |-> Qualifies(StripPrefix(arg)),
               text |-> StripStep(arg),
               again |-> NoneVal]
    /\ pc' = "strip_done"
    /\ UNCHANGED <<arg, pipelineVars>>

\* The strip step once more, on the text it produced from a qualifying line.
StripAgain ==
    /\ pc = "strip_done"
    /\ ret.qualifies
    /\ ret' = [ret EXCEPT !.again = StripStep(ret.text)]
    /\ pc' = "strip_redone"
    /\ UNCHANGED <<arg, pipelineVars>>

NextStrip == StripCall \/ StripAgain

SpecStrip == InitStrip /\ [][NextStrip]_vars

----------------------------------------------------------------------------
(* extract_rows applied to bounded documents *)

\* The most raw lines in a document.
MaxLines == 3

\* Raw lines as pdfplumber may return them.
ExtractLines == {
    <<" ", "\t">>,
    ScheduleFor \o <<" ">> \o DataRow,
    Borough \o Wide \o DataRow,
    <<" ">> \o Brooklyn \o <<"\t">>,
    Queens \o <<" "," "," ">> \o DataRow,
    Bronx \o <<" ","1","2"," ">> \o DataRow,
    STATEN \o <<" ","I","S","L","A","N","D"," ">> \o DataRow,
    DataRow,
    <<"S","I","P"," ">> \o MainSt \o Wide \o OakAve \o Wide \o Concrete,
    ParkAve \o Wide \o OakAve \o Wide \o FifthAve \o Wide \o Concrete,
    ThreeStreets \o Wide \o <<"A","s","p","h","a","l","t">>,
    Manhattan \o <<" ">> \o ScheduleFor \o <<" ","2","0","2","4">> }

InitExtract ==
    /\ pc = "extract"
    /\ \E n \in 0..MaxLines : doc \in [1..n -> ExtractLines]
    /\ li = 0
    /\ boro = NoneVal
    /\ rows = <<>>
    /\ origin = <<>>
    /\ idx = 0
    /\ streets = <<>>
    /\ tries = 0
    /\ start_location = NoneVal
    /\ end_location = NoneVal
    /\ m = <<>>
    /\ log = <<>>
    /\ arg = <<>>
    /\ ret = <<>>

NextExtract == ExtractLine \/ ExtractReturn

SpecExtract == InitExtract /\ [][NextExtract]_vars

----------------------------------------------------------------------------
(* generate_and_save_map on bounded documents *)

\* The most raw lines in the PDF of a run.
MaxPdfLines == 2

\* Raw lines that give rows of three streets, of two, and of one.
PipelineLines == {
    Bronx \o <<" ","1","2"," ">> \o DataRow,
    DataRow,
    <<"S","I","P"," ">> \o MainSt \o Wide \o OakAve \o Wide \o Concrete,
    Manhattan \o <<" ","3"," ">> \o MainSt \o Wide \o Concrete }

Init ==
    /\ pc = "download"
    /\ \E n \in 0..MaxPdfLines : doc \in [1..n -> PipelineLines]
    /\ li = 0
    /\ boro = NoneVal
    /\ rows = <<>>
    /\ origin = <<>>
    /\ idx = 0
    /\ streets = <<>>
    /\ tries = 0
    /\ start_location = NoneVal
    /\ end_location = NoneVal
    /\ m = <<>>
    /\ log = <<>>
    /\ arg = <<>>
    /\ ret = <<>>

Next ==
    \/ DownloadOk
    \/ DownloadFail
    \/ ExtractLine
    \/ ExtractReturn
    \/ ExtractRaise
    \/ RowReject
    \/ RowBegin
    \/ GeocodeStart
    \/ GeocodeEnd
    \/ Save

Spec == Init /\ [][Next]_vars

----------------------------------------------------------------------------
(* generate_and_save_map run to its end: every step that can be taken is taken *)

\* The most raw lines in the PDF of such a run.
MaxRetryLines == 1

InitRetry ==
    /\ Init
    /\ Len(doc) <= MaxRetryLines

\* The run has come to its end: the map is saved, or there was no PDF, or an
\* exception was caught.
Terminated == pc \in {"done", "no_pdf", "error"}

\* The run is one sequential function call, and every geocode call returns or
\* raises: as long as the run has not come to its end, it takes its next step.
\* This is WF_vars(Next) with ENABLED <<Next>>_vars written out: a step of Next
\* can be taken exactly where the run has not come to its end.
RunGoesOn == []<>Terminated \/ []<><<Next>>_vars

SpecRetry == InitRetry /\ [][Next]_vars /\ RunGoesOn

----------------------------------------------------------------------------
(* Vocabulary of the properties *)

\* The first whitespace-delimited token of a stripped line.
FirstToken(ln) == SubSeq(ln, 1, RunLen(ln, Whitespace, FALSE))

\* The borough a line names: "Staten Island" for a token containing STATEN, any
\* other token verbatim.
NamedBorough(ln) ==
    IF Contains(FirstToken(ln), STATEN) THEN StatenIsland ELSE FirstToken(ln)

\* Raw line j, stripped.
Stripped(j) == Strip(doc[j])

\* The lines up to j that begin with a borough token.
BoroLines(j) == {i \in 1..j : StartsWithBoro(Stripped(i))}

\* Those of them that are not skipped as boilerplate.
KeptBoroLines(j) == {i \in BoroLines(j) : ~Skipped(Stripped(i))}

Last(S) == CHOOSE i \in S : \A k \in S : k <= i

\* The geocode calls of the log for row i and endpoint w, and those that
\* returned a Location.
Calls(i, w) ==
    {n \in 1..Len(log) : log[n].row = i /\ log[n].which = w /\ log[n].op = "geocode"}
Found(i, w) ==
    {n \in 1..Len(log) : /\ log[n].row = i
                          /\ log[n].which = w
                          /\ log[n].op = "geocode"
                          /\ log[n].outcome = "location"}
Failed(i, w) ==
    {n \in 1..Len(log) : /\ log[n].row = i
                          /\ log[n].which = w
                          /\ log[n].op = "geocode"
                          /\ log[n].outcome # "location"}

\* The layers drawn for row i, and those that stand for its segment.
LayersOf(i) == {n \in 1..Len(m) : m[n].row = i}
SegmentsOf(i) == {n \in LayersOf(i) : m[n].type \in {"Marker", "PolyLine"}}

\* The blocks the lines of PipelineLines give, and their streets.
PipelineBlocks ==
    { LineStep(NoneVal, raw).appended[1][2] :
          raw \in {l \in PipelineLines : LineStep(NoneVal, l).appended # <<>>} }
StreetsTable == [b \in PipelineBlocks |-> split_streets(b)]

\* (on_st, from_st, to_st) of row i.
StreetsOf(i) ==
    IF rows[i][2] \in PipelineBlocks THEN StreetsTable[rows[i][2]]
    ELSE split_streets(rows[i][2])

----------------------------------------------------------------------------
(* C1 *)

\* Data rows of the schedule: street names in columns, then "Concrete".
DataRows == {
    DataRow,
    MainSt \o Wide \o OakAve \o Wide \o Concrete,
    ParkAve \o Wide \o OakAve \o Wide \o FifthAve \o Wide \o Concrete }

\* What follows the borough token and the whitespace after it.
SharedRow(line, tok) == LStripSet(SubSeq(line, Len(tok) + 1, Len(line)), Whitespace)

\* The line is a borough token, whitespace and a data row.
IsSharedLine(line, tok) ==
    /\ StartsWith(line, tok)
    /\ Len(line) > Len(tok)
    /\ line[Len(tok) + 1] \in Whitespace
    /\ SharedRow(line, tok) \in DataRows

\* C1: a consumed line made of a borough token, whitespace and a data row
\* ending in "Concrete" has given the row whose borough is the token and whose
\* block is the data row minus "Concrete", trimmed; the line
\* "Queens   MAIN ST  OAK AVE  5TH AVE  Concrete" has given the streets
\* MAIN ST, OAK AVE, 5TH AVE.
C1_SharedLineRecord ==
    \A j \in 1..li : \A tok \in boro_tokens \ {STATEN} :
        IsSharedLine(doc[j], tok) =>
            \E k \in 1..Len(rows) :
                /\ origin[k] = j
                /\ rows[k] = <<tok, Strip(SubSeq(SharedRow(doc[j], tok), 1,
                                                 Len(SharedRow(doc[j], tok)) - 8))>>
                /\ (doc[j] = Queens \o <<" "," "," ">> \o DataRow
                        => split_streets(rows[k][2]) = <<MainSt, OakAve, FifthAve>>)

----------------------------------------------------------------------------
(* C2 *)

\* The reference: a leading "SIP " or "IFA " removed, and nothing else.
RemovePrefix(t) ==
    IF StartsWith(t, <<"S","I","P"," ">>) \/ StartsWith(t, <<"I","F","A"," ">>)
    THEN SubSeq(t, 5, Len(t))
    ELSE t

\* C2: the prefix-strip step leaves the content unchanged unless it begins with
\* "SIP " or "IFA ", and then removes those four characters only.
C2_ExactPrefix == pc = "strip_done" => ret.content = RemovePrefix(arg)

----------------------------------------------------------------------------
(* C3 *)

\* C3: on a qualifying line, the strip step applied to the text it produced
\* returns that text unchanged.
C3_Idempotent == pc = "strip_redone" => ret.again = ret.text

----------------------------------------------------------------------------
(* C4 *)

\* C4 as stated: once a non-blank line beginning with a borough token is
\* consumed, the tracked borough is the one that line names, and a row of that
\* line carries it.
C4_EveryBoroLineUpdates ==
    /\ (li > 0 /\ Stripped(li) # <<>> /\ StartsWithBoro(Stripped(li)))
           => boro = NamedBorough(Stripped(li))
    /\ \A k \in 1..Len(rows) :
           StartsWithBoro(Stripped(origin[k]))
               => rows[k][1] = NamedBorough(Stripped(origin[k]))

\* C4 amended: once a line that is not skipped (not blank, without "Schedule
\* for", not beginning with "Borough") and begins with a borough token is
\* consumed, the tracked borough is the one that line names, and a row of that
\* line carries it, never the previous one.
C4_KeptBoroLineUpdates ==
    /\ (li > 0 /\ ~Skipped(Stripped(li)) /\ StartsWithBoro(Stripped(li)))
           => boro = NamedBorough(Stripped(li))
    /\ \A k \in 1..Len(rows) :
           StartsWithBoro(Stripped(origin[k]))
               => rows[k][1] = NamedBorough(Stripped(origin[k]))

\* A row of a line that names a borough, after a line that named another one.
C4_Witness ==
    \E k \in 1..Len(rows) :
        /\ origin[k] > 1
        /\ StartsWithBoro(Stripped(origin[k]))
        /\ KeptBoroLines(origin[k] - 1) # {}
        /\ NamedBorough(Stripped(Last(KeptBoroLines(origin[k] - 1))))
               # NamedBorough(Stripped(origin[k]))
        /\ rows[k][1] = NamedBorough(Stripped(origin[k]))

----------------------------------------------------------------------------
(* C5 *)

\* C5: no row has an undefined borough, and no geocode call is made for a row
\* with an undefined borough.
C5_NoUndefinedBorough ==
    /\ \A k \in 1..Len(rows) : rows[k][1] # NoneVal
    /\ \A n \in 1..Len(log) :
           log[n].op = "geocode" => rows[log[n].row][1] # NoneVal

----------------------------------------------------------------------------
(* C6 *)

\* C6 as stated, for the rows that have a borough: the borough of a row is the
\* one named by the last line, at or before the row's line, that begins with a
\* borough token.
C6_LastBoroLine ==
    \A k \in 1..Len(rows) :
        (rows[k][1] # NoneVal /\ BoroLines(origin[k]) # {})
            => rows[k][1] = NamedBorough(Stripped(Last(BoroLines(origin[k]))))

\* C6 amended: the borough of a row is the one named by the last line, at or
\* before the row's line, that is not skipped as blank or boilerplate and begins
\* with a borough token; the tracked borough is the one named by the last such
\* line consumed, so that every other line leaves it unchanged.
C6_LastKeptBoroLine ==
    /\ \A k \in 1..Len(rows) :
           KeptBoroLines(origin[k]) # {}
               => rows[k][1] = NamedBorough(Stripped(Last(KeptBoroLines(origin[k]))))
    /\ boro = IF KeptBoroLines(li) = {} THEN NoneVal
              ELSE NamedBorough(Stripped(Last(KeptBoroLines(li))))

\* A row on a line without a borough token, after two lines that name
\* different boroughs: it carries the later one.
C6_Witness ==
    \E k \in 1..Len(rows) :
        /\ ~StartsWithBoro(Stripped(origin[k]))
        /\ Cardinality(KeptBoroLines(origin[k])) >= 2
        /\ \E i \in KeptBoroLines(origin[k]) :
               NamedBorough(Stripped(i)) # rows[k][1]
        /\ rows[k][1] = NamedBorough(Stripped(Last(KeptBoroLines(origin[k]))))

----------------------------------------------------------------------------
(* C7 *)

\* A street name as C7 takes it: not empty, no leading or trailing whitespace,
\* no two whitespace characters in a row.
IsPlainName(n) ==
    /\ n # <<>>
    /\ Strip(n) = n
    /\ \A i \in 1..(Len(n) - 1) : ~(n[i] \in Whitespace /\ n[i + 1] \in Whitespace)

\* C7: split_streets of three plain names joined by two spaces returns exactly
\* the three names.
C7_RoundTrip ==
    (/\ pc = "split_done"
     /\ Len(arg.names) = 3
     /\ arg.gaps = <<Wide, Wide>>
     /\ \A i \in 1..3 : IsPlainName(arg.names[i]))
        => ret = arg.names

\* Three names joined by two spaces, one of them of several words, returned as
\* they were.
C7_Witness ==
    /\ pc = "split_done"
    /\ Len(arg.names) = 3
    /\ arg.gaps = <<Wide, Wide>>
    /\ \A i \in 1..3 : IsPlainName(arg.names[i])
    /\ \E i \in 1..3 : Len(Split(arg.names[i])) >= 2
    /\ ret = arg.names

----------------------------------------------------------------------------
(* C8 *)

\* The word is a street type, whatever its case.
IsStreetTypeWord(w) == Upper(w) \in StreetTypes

\* A name as C8 takes it: words joined by single spaces, at least two of them,
\* the last one a street type and none of those between the first and the last.
IsSuffixedName(n) ==
    LET w == Split(n)
    IN  /\ Join(w) = n
        /\ Len(w) >= 2
        /\ IsStreetTypeWord(w[Len(w)])
        /\ \A i \in 2..(Len(w) - 1) : ~IsStreetTypeWord(w[i])

\* C8: split_streets of three such names joined by single spaces returns
\* exactly the three names, in order.
C8_GreedyFallback ==
    (/\ pc = "split_done"
     /\ Len(arg.names) = 3
     /\ arg.gaps = << <<" ">>, <<" ">> >>
     /\ \A i \in 1..3 : IsSuffixedName(arg.names[i]))
        => ret = arg.names

\* Three such names, one of three words and one beginning with a street type,
\* returned as they were.
C8_Witness ==
    /\ pc = "split_done"
    /\ Len(arg.names) = 3
    /\ arg.gaps = << <<" ">>, <<" ">> >>
    /\ \A i \in 1..3 : IsSuffixedName(arg.names[i])
    /\ \E i \in 1..3 : Len(Split(arg.names[i])) >= 3
    /\ \E i \in 1..3 : IsStreetTypeWord(Split(arg.names[i])[1])
    /\ ret = arg.names

----------------------------------------------------------------------------
(* C9 *)

\* C9: every geocode call for a row whose to_st is empty is a call for the
\* start address of that row; none is made with an "{on_st} & {to_st}" address.
C9_NoEndCallWithoutToStreet ==
    \A i \in 1..Len(rows) :
        StreetsOf(i)[3] = <<>> =>
            \A n \in 1..Len(log) :
                (log[n].op = "geocode" /\ log[n].row = i)
                    => /\ log[n].which = "start"
                       /\ log[n].address = StartAddr(StreetsOf(i), rows[i][1])

\* A row without to_st whose start was found and drawn, the run over.
C9_Witness ==
    /\ pc = "done"
    /\ \E i \in 1..Len(rows) :
           /\ StreetsOf(i)[3] = <<>>
           /\ Found(i, "start") # {}
           /\ SegmentsOf(i) # {}

----------------------------------------------------------------------------
(* C10 *)

\* C10: a row whose start address failed on all three attempts has no layer on
\* the map and no end-address call, and the loop has moved past it; when the run
\* is over, every usable row after it has been geocoded, and what is drawn for
\* that row follows from its own calls alone: one segment if and only if a start
\* call found a Location, a line if and only if an end call did.
C10_StartFailureIsLocal ==
    \A i \in 1..Len(rows) :
        Cardinality(Failed(i, "start")) = MaxTries =>
            /\ LayersOf(i) = {}
            /\ Calls(i, "end") = {}
            /\ idx >= i
            /\ pc = "done" =>
                   \A j \in (i + 1)..Len(rows) :
                       Usable(StreetsOf(j)) =>
                           /\ Calls(j, "start") # {}
                           /\ Cardinality(SegmentsOf(j)) =
                                  (IF Found(j, "start") # {} THEN 1 ELSE 0)
                           /\ (\E n \in SegmentsOf(j) : m[n].type = "PolyLine")
                                  <=> Found(j, "end") # {}

\* The run is over; a row failed three times, by an exception and by no match,
\* and a later row is on the map.
C10_Witness ==
    /\ pc = "done"
    /\ \E i \in 1..Len(rows) :
           /\ Cardinality(Failed(i, "start")) = MaxTries
           /\ \E n1, n2 \in Failed(i, "start") :
                  log[n1].outcome = "raise" /\ log[n2].outcome = "none"
           /\ \E j \in (i + 1)..Len(rows) : SegmentsOf(j) # {}

----------------------------------------------------------------------------
(* C11 *)

\* C11: a row with a to_st whose start address was found and whose end address
\* failed on all three attempts has exactly one layer on the map, a Marker at
\* the Location the start call returned: no line, no end point, and not nothing.
C11_EndFailureKeepsStart ==
    \A i \in 1..Len(rows) :
        (/\ Cardinality(Failed(i, "end")) = MaxTries
         /\ Found(i, "start") # {}
         /\ StreetsOf(i)[3] # <<>>)
            => /\ Cardinality(LayersOf(i)) = 1
               /\ \A n \in LayersOf(i) :
                      /\ m[n].type = "Marker"
                      /\ \E c \in Found(i, "start") :
                             m[n].locations = <<LocationOf(c)>>

\* The run is over; the end address of a row failed by an exception and by no
\* match, and the row is on the map as a Marker.
C11_Witness ==
    /\ pc = "done"
    /\ \E i \in 1..Len(rows) :
           /\ StreetsOf(i)[3] # <<>>
           /\ Cardinality(Failed(i, "end")) = MaxTries
           /\ \E n1, n2 \in Failed(i, "end") :
                  log[n1].outcome = "raise" /\ log[n2].outcome = "none"
           /\ \E n \in LayersOf(i) : m[n].type = "Marker"

----------------------------------------------------------------------------
(* C12 *)

\* Call n of the log is a geocode call that returned no Location.
IsFailedCall(n) == log[n].op = "geocode" /\ log[n].outcome # "location"

\* The place of call n among the calls for its address: 1, 2 or 3.
AttemptNo(n) ==
    Cardinality({k \in Calls(log[n].row, log[n].which) : k <= n})

\* C12: every failed geocode call that is followed by another attempt for the
\* same address is followed at once by the 1-second sleep, whether it raised or
\* returned no match.
C12_DelayAfterEachFailure ==
    \A n \in 1..Len(log) :
        (/\ IsFailedCall(n)
         /\ \E k \in Calls(log[n].row, log[n].which) : k > n)
            => log[n + 1].op = "sleep"

----------------------------------------------------------------------------
(* C13 *)

\* C13: the third geocode call for an address, when it fails, is not followed
\* by a sleep.
C13_NoDelayAfterFinal ==
    \A n \in 1..Len(log) :
        (IsFailedCall(n) /\ AttemptNo(n) = MaxTries)
            => (n = Len(log) \/ log[n + 1].op # "sleep")

----------------------------------------------------------------------------
(* C14 *)

\* For each address, at most three calls and none after one that returned a
\* Location; at most six calls for a row; at least one call for the start
\* address of a usable row the loop has passed, and for its end address when
\* the start was found and there is a to_st.
RetryIsBounded ==
    \A i \in 1..Len(rows) :
        /\ \A w \in {"start", "end"} :
               /\ Cardinality(Calls(i, w)) <= MaxTries
               /\ \A n \in Found(i, w) : \A k \in Calls(i, w) : k <= n
        /\ Cardinality(Calls(i, "start") \cup Calls(i, "end")) <= 2 * MaxTries
        /\ (i <= idx /\ Usable(StreetsOf(i))) => Calls(i, "start") # {}
        /\ (i <= idx /\ Found(i, "start") # {} /\ StreetsOf(i)[3] # <<>>)
               => Calls(i, "end") # {}

\* C14: the retries are bounded at every moment of the run, and the run comes
\* to its end whatever the geocoder returns or raises.
C14_BoundedRetry == []RetryIsBounded /\ <>Terminated

\* The run is over and a row has caused six geocode calls.
C14_Witness ==
    /\ pc = "done"
    /\ \E i \in 1..Len(rows) :
           Cardinality(Calls(i, "start") \cup Calls(i, "end")) = 2 * MaxTries

----------------------------------------------------------------------------
(* C15 *)

\* The writes of the map file in the log.
Saves == {n \in 1..Len(log) : log[n] = SaveEvent}

\* C15: a run that got no PDF has made no geocode call and has not written the
\* map file, and a run ended by an exception has not written it either; the map
\* file is written at most once, and when it is written the loop has passed
\* every row, every usable row has been geocoded, nothing follows the write and
\* the run is over.
C15_AllOrNothing ==
    /\ pc = "no_pdf" => (log = <<>> /\ m = <<>>)
    /\ pc = "error" => Saves = {}
    /\ Cardinality(Saves) <= 1
    /\ \A n \in Saves :
           /\ n = Len(log)
           /\ pc = "done"
           /\ idx = Len(rows)
           /\ \A i \in 1..Len(rows) :
                  Usable(StreetsOf(i)) => Calls(i, "start") # {}

\* The map file written at the end of a run over two rows, one of them drawn
\* and one not.
C15_Witness ==
    /\ pc = "done"
    /\ Saves # {}
    /\ Len(rows) >= 2
    /\ \E i, j \in 1..Len(rows) :
           /\ LayersOf(i) # {}
           /\ Calls(j, "start") # {}
           /\ LayersOf(j) = {}

----------------------------------------------------------------------------
(* C16 *)

\* C16: the geocode calls (and the sleeps between them) come row after row, in
\* the order of the rows: each is for the row of the one before it or for a
\* later row, so that no call for a row is made before the last call for an
\* earlier row, and none is for a row the loop has not reached; the layers of
\* the map stand in the order of their rows, and a row has at most one segment.
C16_OneRowAtATime ==
    /\ \A n \in 1..(Len(log) - 1) :
           log[n + 1].op # "save" => log[n].row <= log[n + 1].row
    /\ \A n \in 1..Len(log) : log[n].row <= idx + 1
    /\ \A k \in 1..(Len(m) - 1) : m[k].row <= m[k + 1].row
    /\ \A i \in 1..Len(rows) : Cardinality(SegmentsOf(i)) <= 1

\* The run is over; two rows are on the map, the first after a retry of its
\* start address and calls for its end address.
C16_Witness ==
    /\ pc = "done"
    /\ \E i, j \in 1..Len(rows) :
           /\ i < j
           /\ Cardinality(Calls(i, "start")) >= 2
           /\ Calls(i, "end") # {}
           /\ SegmentsOf(i) # {}
           /\ SegmentsOf(j) # {}

----------------------------------------------------------------------------
(* C17 *)

\* C17: a row whose on_st or from_st is empty has no geocode call and no layer
\* on the map; a row with on_st and from_st and without to_st is not passed
\* over: once the loop is past it, its start address has been geocoded.
C17_RejectedBeforeGeocoding ==
    \A i \in 1..Len(rows) :
        \A s \in {StreetsOf(i)} :
            /\ (s[1] = <<>> \/ s[2] = <<>>)
                   => /\ Calls(i, "start") = {}
                      /\ Calls(i, "end") = {}
                      /\ LayersOf(i) = {}
            /\ (i <= idx /\ s[1] # <<>> /\ s[2] # <<>> /\ s[3] = <<>>)
                   => Calls(i, "start") # {}

\* The run is over: a row without from_st was passed over, and a row without
\* to_st was geocoded.
C17_Witness ==
    /\ pc = "done"
    /\ \E i, j \in 1..Len(rows) :
           /\ StreetsOf(i)[1] # <<>>
           /\ StreetsOf(i)[2] = <<>>
           /\ Calls(i, "start") = {}
           /\ StreetsOf(j)[2] # <<>>
           /\ StreetsOf(j)[3] = <<>>
           /\ Calls(j, "start") # {}

----------------------------------------------------------------------------
(* C18 *)

\* A raw line that holds "Schedule for" or begins with "Borough".
IsBoilerplate(raw) == Contains(raw, ScheduleFor) \/ StartsWith(raw, Borough)

\* C18: no row comes from a line that holds "Schedule for" or begins with
\* "Borough", whatever else the line holds.
C18_BoilerplateDiscarded ==
    \A k \in 1..Len(rows) : ~IsBoilerplate(doc[origin[k]])

\* Every line is consumed; a line with "Schedule for" and one beginning with
\* "Borough", both ending in "Concrete", gave no row, and another line gave one.
C18_Witness ==
    /\ li = Len(doc)
    /\ rows # <<>>
    /\ \E i, j \in 1..Len(doc) :
           /\ Contains(doc[i], ScheduleFor)
           /\ EndsWith(doc[i], Concrete)
           /\ StartsWith(doc[j], Borough)
           /\ EndsWith(doc[j], Concrete)
           /\ \A k \in 1..Len(rows) : origin[k] \notin {i, j}

----------------------------------------------------------------------------
(* C19 *)

\* C19: every call for the end address of a row comes after a call for its
\* start address that returned a Location; the segment of a row begins at a
\* Location returned by a call for its start address; a segment has an end, as
\* a PolyLine, only when the row has a to_st and the end is a Location returned
\* by one of the at most three calls for its end address.
C19_StartPrecedesEnd ==
    \A i \in 1..Len(rows) :
        \A starts \in {Found(i, "start")} :
            /\ \A n \in Calls(i, "end") : \E c \in starts : c < n
            /\ \A k \in SegmentsOf(i) :
                   /\ \E c \in starts : m[k].locations[1] = LocationOf(c)
                   /\ m[k].type = "PolyLine"
                          => /\ StreetsOf(i)[3] # <<>>
                             /\ Cardinality(Calls(i, "end")) <= MaxTries
                             /\ \E c \in Found(i, "end") :
                                    m[k].locations = <<m[k].locations[1], LocationOf(c)>>
                   /\ m[k].type = "Marker" => Len(m[k].locations) = 1

\* The run is over; a row is drawn as a line whose start was found at the
\* second call and whose end was found at the third.
C19_Witness ==
    /\ pc = "done"
    /\ \E i \in 1..Len(rows) :
           /\ Cardinality(Calls(i, "start")) = 2
           /\ Cardinality(Calls(i, "end")) = MaxTries
           /\ \E k \in SegmentsOf(i) : m[k].type = "PolyLine"

----------------------------------------------------------------------------
(* C20 *)

\* The block split_streets was called with.
ArgBlock == BlockText(arg.names, arg.gaps)

\* The call took the greedy path: the split at wide gaps did not give three tokens.
TookGreedyPath == Len(WideGapTokens(ArgBlock)) # 3

\* The names of the result that are not empty.
NonEmptyNames(r) == SelectSeq(r, LAMBDA x : x # <<>>)

IsPrefix(p, s) == Len(p) <= Len(s) /\ SubSeq(s, 1, Len(p)) = p

\* C20: split_streets returns exactly three strings, the empty ones after all
\* the others; on the greedy path the names that are not empty, joined by single
\* spaces, are made of the first words of the block, in their order.
C20_ThreeSlotsInOrder ==
    pc = "split_done" =>
        /\ Len(ret) = 3
        /\ \A i \in 1..(Len(ret) - 1) : ret[i] = <<>> => ret[i + 1] = <<>>
        /\ TookGreedyPath
               => /\ IsPrefix(Split(Join(NonEmptyNames(ret))), Split(ArgBlock))
                  /\ \A i \in 1..Len(ret) : ret[i] # <<>> => ret[i] = Join(Split(ret[i]))

\* The greedy path on a block of several words: one name closed by a street
\* type, then the words left over as a second name without one, then padding.
C20_Witness ==
    /\ pc = "split_done"
    /\ TookGreedyPath
    /\ Len(ret) = 3
    /\ HasStreetType(ret[1])
    /\ ret[2] # <<>>
    /\ ~HasStreetType(ret[2])
    /\ ret[3] = <<>>

====
